---- MODULE Spec2Model ----
(***************************************************************************)
(* GemScribe AI: the response chunker / chunk reassembler pair, the        *)
(* single-chunk regeneration path, the streaming generation path and the   *)
(* local history, as a state machine.                                      *)
(*                                                                         *)
(* Text is a sequence of tokens.  A token is one of the characters "#",    *)
(* " " and "\n", or a word (a maximal run of other characters, kept        *)
(* atomic: no operation of the program looks inside a word).               *)
(***************************************************************************)
EXTENDS Integers, Sequences, FiniteSets, TLC

VARIABLES
  now,                  \* Date.now(), in milliseconds
  history,              \* App: storedValue of useLocalStorage('history')
  activeHistoryItem,    \* App
  view,                 \* App
  generationCount,      \* App: storedValue of useLocalStorage('generationCount')
  isLoading,            \* ContentGeneratorView
  error,                \* ContentGeneratorView
  generatedContent,     \* ContentGeneratorView (rawContent of ContentOutput)
  currentParams,        \* ContentGeneratorView (params of ContentOutput)
  chunks,               \* ContentOutput
  regeneratingChunkId,  \* ContentOutput
  cardEnv,              \* what the handlers held by memoizedChunks closed over
  gens,                 \* handleGenerate calls awaiting streamGeneratedContent
  regens,               \* handleRegenerateChunk calls awaiting regenerateContentChunk
  opCount,              \* chunk operations started so far
  ev,                   \* the last event and what it was given
  fn                    \* the last application of the pure functions

appVars == << now, history, activeHistoryItem, view, generationCount, isLoading,
              error, generatedContent, currentParams, chunks, regeneratingChunkId,
              cardEnv, gens, regens, opCount, ev >>

vars == << now, history, activeHistoryItem, view, generationCount, isLoading,
           error, generatedContent, currentParams, chunks, regeneratingChunkId,
           cardEnv, gens, regens, opCount, ev, fn >>

NULL == "null"

\* ------------------------------------------------------------------ text

\* JavaScript's \s and the characters String.prototype.trim removes,
\* restricted to the alphabet of the model.
WS == {" ", "\n"}

IsWS(c) == c \in WS

SetMin(S) == CHOOSE x \in S : \A y \in S : x <= y

SetMax(S) == CHOOSE x \in S : \A y \in S : y <= x

\* String.prototype.trim
Trim(s) ==
  LET idx == {i \in 1..Len(s) : ~IsWS(s[i])}
  IN  IF idx = {} THEN <<>> ELSE SubSeq(s, SetMin(idx), SetMax(idx))

\* The lookahead (?=###\s) matches at (1-based) position q.
MarkerAt(s, q) ==
  /\ q + 3 <= Len(s)
  /\ s[q] = "#" /\ s[q + 1] = "#" /\ s[q + 2] = "#"
  /\ IsWS(s[q + 3])

\* String.prototype.split with a zero-width pattern: a cut at every match
\* position except the start of the string.
SplitPoints(s) == {q \in 2..Len(s) : MarkerAt(s, q)}

RECURSIVE SplitFrom(_, _)
SplitFrom(s, p) ==
  LET later == {q \in SplitPoints(s) : q > p}
  IN  IF later = {} THEN << SubSeq(s, p, Len(s)) >>
      ELSE << SubSeq(s, p, SetMin(later) - 1) >> \o SplitFrom(s, SetMin(later))

SplitAtMarkers(s) == SplitFrom(s, 1)

NonBlank(s) == Trim(s) # <<>>

\* lines[0] of s.split('\n')
FirstLine(s) ==
  LET nl == {i \in 1..Len(s) : s[i] = "\n"}
  IN  IF nl = {} THEN s ELSE SubSeq(s, 1, SetMin(nl) - 1)

\* lines.slice(1).join('\n') of s.split('\n')
RestLines(s) ==
  LET nl == {i \in 1..Len(s) : s[i] = "\n"}
  IN  IF nl = {} THEN <<>> ELSE SubSeq(s, SetMin(nl) + 1, Len(s))

\* String.prototype.replace('###', ''): the first occurrence only, wherever
\* it is in the line.
RemoveFirstMarker(s) ==
  LET at == {i \in 1..(Len(s) - 2) : s[i] = "#" /\ s[i + 1] = "#" /\ s[i + 2] = "#"}
  IN  IF at = {} THEN s
      ELSE SubSeq(s, 1, SetMin(at) - 1) \o SubSeq(s, SetMin(at) + 3, Len(s))

DefaultTitle == << "Generated", " ", "Content" >>

\* Ids numbered from one.
ChunkIdFromOne(index) == << "chunk-", index + 1 >>

ChunkId(index) == << "chunk-", index >>

SectionToChunk(section, index) ==
  LET t == Trim(section)
  IN  [id      |-> ChunkId(index),
       title   |-> Trim(RemoveFirstMarker(FirstLine(t))),
       content |-> Trim(RestLines(t))]

\* parseContent without its one-section branch.
parseContentNoFallback(rawContent) ==
  IF rawContent = <<>> THEN <<>>
  ELSE LET sections == SelectSeq(SplitAtMarkers(rawContent), NonBlank)
       IN  [i \in 1..Len(sections) |-> SectionToChunk(sections[i], i - 1)]

\* parseContent without the `&& rawContent.trim()` of its one-section branch.
parseContentNoTrimTest(rawContent) ==
  IF rawContent = <<>> THEN <<>>
  ELSE LET sections == SelectSeq(SplitAtMarkers(rawContent), NonBlank)
       IN  IF Len(sections) <= 1
           THEN << [id |-> ChunkId(0), title |-> DefaultTitle,
                    content |-> Trim(rawContent)] >>
           ELSE [i \in 1..Len(sections) |-> SectionToChunk(sections[i], i - 1)]

parseContent(rawContent) ==
  IF rawContent = <<>> THEN <<>>
  ELSE LET sections == SelectSeq(SplitAtMarkers(rawContent), NonBlank)
       IN  IF Len(sections) <= 1 /\ Trim(rawContent) # <<>>
           THEN << [id |-> ChunkId(0), title |-> DefaultTitle,
                    content |-> Trim(rawContent)] >>
           ELSE [i \in 1..Len(sections) |-> SectionToChunk(sections[i], i - 1)]

\* One chunk with a single line break between title and body.
ChunkTextOneBreak(c) == << "#", "#", "#", " " >> \o c.title \o << "\n" >> \o c.content

ChunkText(c) == << "#", "#", "#", " " >> \o c.title \o << "\n", "\n" >> \o c.content

RECURSIVE JoinChunks(_)
JoinChunks(cs) ==
  IF cs = <<>> THEN <<>>
  ELSE IF Len(cs) = 1 THEN ChunkText(cs[1])
  ELSE ChunkText(cs[1]) \o << "\n", "\n" >> \o JoinChunks(Tail(cs))

\* The raw text updateFullContentFromChunks hands to onUpdateFullContent.
updateFullContentFromChunks(updatedChunks) == JoinChunks(updatedChunks)

\* handleUpdateChunk without its comparison of ids.
handleUpdateChunkAnyId(list, id, newContent) ==
  [i \in 1..Len(list) |-> [list[i] EXCEPT !.content = newContent]]

\* newChunks of handleUpdateChunk, from the chunks the handler closed over
handleUpdateChunk(list, id, newContent) ==
  [i \in 1..Len(list) |->
     IF list[i].id = id THEN [list[i] EXCEPT !.content = newContent]
     ELSE list[i]]

\* newChunks of handleDeleteChunk, from the chunks the handler closed over
handleDeleteChunk(list, id) ==
  LET keep(c) == c.id # id IN SelectSeq(list, keep)

\* ------------------------------------------------------------------ bounds

MaxChunks == 3

MaxGens == 1

MaxOps == 2

MaxTicks == 1

\* ------------------------------------------------------------------ values

NullText == << NULL >>

NoChunkId == << >>

\* rawContent || ''
Text(raw) == IF raw = NullText THEN << >> ELSE raw

DUP_WINDOW_MS == 5000

SINGLE_PROJECT_ID == "default_project"

NoItem == [id |-> -1, projectId |-> NULL, params |-> NULL,
           generatedContent |-> << >>, createdAt |-> -1]

Params == {"P1", "P2"}

\* The views that matter to the generator: leaving for the project view
\* unmounts it just as leaving for the improver view does.
Views == {"generator", "project"}

\* What generateContentStream delivers: the fragments of one response.
StreamTwoSections ==
  << << "#", "#", "#", " ", "A", "\n", "x", "\n" >>,
     << "#", "#", "#", " ", "B", "\n", "y" >> >>

\* A response without a heading, whose last element carries no text.
StreamPlain == << << "x" >>, << >> >>

Streams == {StreamTwoSections, StreamPlain}

\* The elements of a response that carry text: `if (text)`.
HasText(frag) == frag # << >>

TextFragments(stream) == SelectSeq(stream, HasText)

\* The fragments of a response, put together in arrival order.
RECURSIVE Concat(_)
Concat(stream) ==
  IF stream = << >> THEN << >> ELSE Head(stream) \o Concat(Tail(stream))

\* What generateContent answers: response.text (absent, or a string), or a
\* rejection of the call.
Absent == << NULL >>

Replies ==
  {[kind |-> "text", text |-> t] : t \in {Absent, << >>, << " " >>, << "z" >>}}
    \cup {[kind |-> "error", text |-> Absent]}

\* What localStorage holds under 'history' as the App mounts: nothing, or a
\* record an earlier session saved at time 0.
StoredItem ==
  [id |-> 0, projectId |-> SINGLE_PROJECT_ID, params |-> "P1",
   generatedContent |-> << "#", "#", "#", " ", "A", "\n", "\n", "x", "\n", "\n",
                           "#", "#", "#", " ", "B", "\n", "\n", "y" >>,
   createdAt |-> 0]

StoredHistories == {<< >>, << StoredItem >>}

\* What the user types into a card.
EditTexts == {<< "e" >>}

\* ------------------------------------------------------------------ history

HasItem(prev, active) ==
  active # NoItem /\ \E k \in 1..Len(prev) : prev[k].id = active.id

\* The updater saveHistory passes to setHistory, applied to prev at time t.
saveHistory(prev, active, item, t) ==
  IF HasItem(prev, active)
  THEN [k \in 1..Len(prev) |->
          IF prev[k].id = active.id
          THEN [prev[k] EXCEPT !.generatedContent = item.generatedContent]
          ELSE prev[k]]
  ELSE LET newHistoryItem ==
             [id |-> t, projectId |-> SINGLE_PROJECT_ID, params |-> item.params,
              generatedContent |-> item.generatedContent, createdAt |-> t]
           lastItem == prev[Len(prev)]
       IN  IF /\ Len(prev) > 0
              /\ lastItem.projectId = newHistoryItem.projectId
              /\ lastItem.params = newHistoryItem.params
              /\ t - lastItem.createdAt < DUP_WINDOW_MS
           THEN SubSeq(prev, 1, Len(prev) - 1) \o << newHistoryItem >>
           ELSE prev \o << newHistoryItem >>

\* ------------------------------------------------------------------ service

\* regenerateContentChunk rejecting an absent text only, not an empty one.
regenerateContentChunkAbsentOnly(reply) ==
  IF reply.kind = "error" \/ reply.text = Absent
  THEN [ok |-> FALSE, text |-> << >>]
  ELSE [ok |-> TRUE, text |-> Trim(reply.text)]

\* regenerateContentChunk, given what generateContent answered.
regenerateContentChunk(reply) ==
  IF reply.kind = "error" THEN [ok |-> FALSE, text |-> << >>]
  ELSE IF reply.text = Absent \/ reply.text = << >>
       THEN [ok |-> FALSE, text |-> << >>]
       ELSE [ok |-> TRUE, text |-> Trim(reply.text)]

\* handleGenerate's catch without its setGeneratedContent(null).
FailedContentKept(current) == current

\* What handleGenerate's catch sets generatedContent to.
FailedContent(current) == NullText

\* ------------------------------------------------------------------ closures

EnvOf(h, a, p) == [hist |-> h, active |-> a, params |-> p]

NoEnv == EnvOf(<< >>, NoItem, NULL)

NoReply == [kind |-> "none", text |-> Absent]

\* An event of the program: the operation, the chunk id and text it was given,
\* the parameters its closure held, whether its component was still mounted
\* (live), whether the chunk list was the one it started from (fresh), the
\* regenerations it saw complete while it was in flight (seen), and the answer
\* of the one-shot call.
EvR(op, id, text, params, live, fresh, seen, reply) ==
  [op |-> op, id |-> id, text |-> text, params |-> params, live |-> live,
   fresh |-> fresh, seen |-> seen, reply |-> reply]

Ev(op, id, text, params, live, fresh, seen) ==
  EvR(op, id, text, params, live, fresh, seen, NoReply)

NoFn == [op |-> "idle", C |-> << >>, R |-> << >>, out |-> << >>,
         outRaw |-> << >>, id |-> NoChunkId]

\* The cards are on screen.
CardsShown ==
  /\ view = "generator"
  /\ ~isLoading
  /\ error = NULL
  /\ generatedContent # NullText /\ generatedContent # << >>

\* chunks after the render that follows: ContentOutput's effect re-parses
\* rawContent when rawContent changed.
AfterRender(newRaw, setTo) ==
  IF newRaw # generatedContent THEN parseContent(Text(newRaw)) ELSE setTo

Orphaned(S) == {[x EXCEPT !.live = FALSE] : x \in S}

\* handleUpdateFullContent as closed over by env: its effect on the history.
SaveVia(env, newRaw) ==
  /\ history' = IF env.params # NULL
                THEN saveHistory(env.hist, env.active,
                       [params |-> env.params, generatedContent |-> newRaw], now)
                ELSE history
  /\ now' = IF env.params # NULL /\ ~HasItem(env.hist, env.active)
            THEN now + 1 ELSE now

\* setChunks(newChunks); updateFullContentFromChunks(newChunks) in a mounted
\* ContentOutput, and the renders that follow.
CommitChunks(newChunks, env) ==
  LET newRaw == updateFullContentFromChunks(newChunks)
  IN  /\ generatedContent' = newRaw
      /\ chunks' = AfterRender(newRaw, newChunks)
      /\ SaveVia(env, newRaw)
      /\ cardEnv' = EnvOf(history', activeHistoryItem, currentParams)

\* ------------------------------------------------------------------ actions

AppInit ==
  /\ now = DUP_WINDOW_MS
  /\ history \in StoredHistories
  /\ activeHistoryItem = NoItem
  /\ view = "generator"
  /\ generationCount = 0
  /\ isLoading = FALSE
  /\ error = NULL
  /\ generatedContent = NullText
  /\ currentParams = NULL
  /\ chunks = << >>
  /\ regeneratingChunkId = NoChunkId
  /\ cardEnv = NoEnv
  /\ gens = {}
  /\ regens = {}
  /\ opCount = 0
  /\ ev = Ev("init", NoChunkId, << >>, NULL, FALSE, FALSE, {})

\* handleGenerate up to its await (the form's submit, or Regenerate All).
Generate(P, s) ==
  /\ view = "generator"
  /\ ~isLoading
  /\ generationCount < MaxGens
  /\ isLoading' = TRUE
  /\ error' = NULL
  /\ currentParams' = P
  /\ generatedContent' = << >>
  /\ generationCount' = generationCount + 1
  /\ gens' = gens \cup {[params |-> P, hist |-> history,
                         active |-> activeHistoryItem, stream |-> s,
                         rest |-> s, acc |-> << >>, calls |-> << >>,
                         live |-> TRUE]}
  /\ chunks' = AfterRender(<< >>, chunks)
  /\ cardEnv' = IF generatedContent # << >>
                THEN EnvOf(history, activeHistoryItem, P) ELSE cardEnv
  /\ ev' = Ev("generate", NoChunkId, << >>, P, TRUE, FALSE, {})
  /\ UNCHANGED << now, history, activeHistoryItem, view, regeneratingChunkId,
                  regens, opCount, fn >>

\* One turn of streamGeneratedContent's for-await loop, and the onChunk
\* callback of handleGenerate.
GenFragment(g) ==
  /\ g \in gens
  /\ g.rest # << >>
  /\ LET frag == Head(g.rest)
         applied == g.live /\ frag # << >>
         newRaw == Text(generatedContent) \o frag
     IN  /\ gens' = (gens \ {g}) \cup
                    {[g EXCEPT !.rest = Tail(g.rest),
                               !.acc = IF frag # << >> THEN g.acc \o frag
                                       ELSE g.acc,
                               !.calls = IF frag # << >>
                                         THEN Append(g.calls, frag)
                                         ELSE g.calls]}
         /\ generatedContent' = IF applied THEN newRaw ELSE generatedContent
         /\ chunks' = IF applied THEN parseContent(newRaw) ELSE chunks
         /\ cardEnv' = IF applied
                       THEN EnvOf(history, activeHistoryItem, currentParams)
                       ELSE cardEnv
         /\ ev' = Ev("fragment", NoChunkId, frag, g.params, g.live, FALSE, {})
  /\ UNCHANGED << now, history, activeHistoryItem, view, generationCount,
                  isLoading, error, currentParams, regeneratingChunkId, regens,
                  opCount, fn >>

\* streamGeneratedContent resolves: the rest of handleGenerate's try, and
\* its finally.
GenComplete(g) ==
  /\ g \in gens
  /\ g.rest = << >>
  /\ history' = saveHistory(g.hist, g.active,
                  [params |-> g.params, generatedContent |-> g.acc], now)
  /\ now' = IF HasItem(g.hist, g.active) THEN now ELSE now + 1
  /\ activeHistoryItem' = NoItem
  /\ isLoading' = IF g.live THEN FALSE ELSE isLoading
  /\ gens' = gens \ {g}
  /\ ev' = Ev("genOk", NoChunkId, g.acc, g.params, g.live, FALSE, {})
  /\ UNCHANGED << view, generationCount, error, generatedContent, currentParams,
                  chunks, regeneratingChunkId, cardEnv, regens, opCount, fn >>

\* streamGeneratedContent rejects: handleGenerate's catch and finally.
GenFail(g) ==
  /\ g \in gens
  /\ LET cleared == FailedContent(generatedContent)
     IN  /\ error' = IF g.live THEN "Failed to generate content" ELSE error
         /\ generatedContent' = IF g.live THEN cleared ELSE generatedContent
         /\ isLoading' = IF g.live THEN FALSE ELSE isLoading
         /\ chunks' = IF g.live THEN AfterRender(cleared, chunks) ELSE chunks
         /\ cardEnv' = IF g.live /\ cleared # generatedContent
                       THEN EnvOf(history, activeHistoryItem, currentParams)
                       ELSE cardEnv
  /\ gens' = gens \ {g}
  /\ ev' = Ev("genFail", NoChunkId, g.acc, g.params, g.live, FALSE, {})
  /\ UNCHANGED << now, history, activeHistoryItem, view, generationCount,
                  currentParams, regeneratingChunkId, regens, opCount, fn >>

\* ContentCard commits a typed body: onUpdate(chunk.id, debouncedContent).
UpdateChunk(i, e) ==
  /\ CardsShown
  /\ opCount < MaxOps
  /\ i \in 1..Len(chunks)
  /\ e # chunks[i].content
  /\ CommitChunks(handleUpdateChunk(chunks, chunks[i].id, e), cardEnv)
  /\ opCount' = opCount + 1
  /\ ev' = Ev("update", chunks[i].id, e, cardEnv.params, TRUE, TRUE, {})
  /\ UNCHANGED << activeHistoryItem, view, generationCount, isLoading, error,
                  currentParams, regeneratingChunkId, gens, regens, fn >>

\* The card's Delete button: onDelete(chunk.id).
DeleteChunk(i) ==
  /\ CardsShown
  /\ opCount < MaxOps
  /\ i \in 1..Len(chunks)
  /\ CommitChunks(handleDeleteChunk(chunks, chunks[i].id), cardEnv)
  /\ opCount' = opCount + 1
  /\ ev' = Ev("delete", chunks[i].id, << >>, cardEnv.params, TRUE, TRUE, {})
  /\ UNCHANGED << activeHistoryItem, view, generationCount, isLoading, error,
                  currentParams, regeneratingChunkId, gens, regens, fn >>

\* handleRegenerateChunk up to its await.
StartRegen(i) ==
  /\ CardsShown
  /\ opCount < MaxOps
  /\ i \in 1..Len(chunks)
  /\ cardEnv.params # NULL
  /\ regeneratingChunkId # chunks[i].id
  /\ regeneratingChunkId' = chunks[i].id
  /\ regens' = regens \cup {[chunk |-> chunks[i], list |-> chunks,
                             env |-> cardEnv, live |-> TRUE, seen |-> {}]}
  /\ cardEnv' = EnvOf(history, activeHistoryItem, currentParams)
  /\ opCount' = opCount + 1
  /\ ev' = Ev("regenStart", chunks[i].id, << >>, cardEnv.params, TRUE, TRUE, {})
  /\ UNCHANGED << now, history, activeHistoryItem, view, generationCount,
                  isLoading, error, generatedContent, currentParams, chunks,
                  gens, fn >>

\* regenerateContentChunk resolves: the rest of handleRegenerateChunk's try,
\* and its finally.
RegenResolve(r, reply) ==
  /\ r \in regens
  /\ regenerateContentChunk(reply).ok
  /\ LET newContent == regenerateContentChunk(reply).text
         newChunks == handleUpdateChunk(r.list, r.chunk.id, newContent)
         done == [id |-> r.chunk.id, content |-> newContent]
     IN  /\ IF r.live
            THEN /\ CommitChunks(newChunks, r.env)
                 /\ regeneratingChunkId' = NoChunkId
            ELSE /\ SaveVia(r.env, updateFullContentFromChunks(newChunks))
                 /\ UNCHANGED << generatedContent, chunks, cardEnv,
                                 regeneratingChunkId >>
         /\ regens' = {IF r.live /\ x.live
                       THEN [x EXCEPT !.seen = x.seen \cup {done}] ELSE x :
                       x \in regens \ {r}}
         /\ ev' = EvR("regenOk", r.chunk.id, newContent, r.env.params, r.live,
                      r.live /\ r.list = chunks, r.seen, reply)
  /\ UNCHANGED << activeHistoryItem, view, generationCount, isLoading, error,
                  currentParams, gens, opCount, fn >>

\* regenerateContentChunk rejects: handleRegenerateChunk's catch and finally.
RegenReject(r, reply) ==
  /\ r \in regens
  /\ ~regenerateContentChunk(reply).ok
  /\ regeneratingChunkId' = IF r.live THEN NoChunkId ELSE regeneratingChunkId
  /\ cardEnv' = IF r.live /\ regeneratingChunkId # NoChunkId
                THEN EnvOf(history, activeHistoryItem, currentParams)
                ELSE cardEnv
  /\ regens' = regens \ {r}
  /\ ev' = EvR("regenFail", r.chunk.id, << >>, r.env.params, r.live,
               r.live /\ r.list = chunks, r.seen, reply)
  /\ UNCHANGED << now, history, activeHistoryItem, view, generationCount,
                  isLoading, error, generatedContent, currentParams, chunks,
                  gens, opCount, fn >>

\* ContentGeneratorView and ContentOutput as they mount with active item a.
Mount(a) ==
  /\ isLoading' = FALSE
  /\ error' = NULL
  /\ generatedContent' = IF a # NoItem THEN a.generatedContent ELSE NullText
  /\ currentParams' = a.params
  /\ chunks' = parseContent(Text(generatedContent'))
  /\ regeneratingChunkId' = NoChunkId
  /\ cardEnv' = EnvOf(history, a, a.params)

Unmount ==
  /\ isLoading' = FALSE
  /\ error' = NULL
  /\ generatedContent' = NullText
  /\ currentParams' = NULL
  /\ chunks' = << >>
  /\ regeneratingChunkId' = NoChunkId
  /\ cardEnv' = NoEnv

\* switchView, from the Sidebar.
SwitchView(newView) ==
  /\ newView \in Views
  /\ newView # view
  /\ view' = newView
  /\ activeHistoryItem' = IF newView = "generator" THEN NoItem
                          ELSE activeHistoryItem
  /\ IF newView = "generator" THEN Mount(NoItem)
     ELSE IF view = "generator" THEN Unmount
     ELSE UNCHANGED << isLoading, error, generatedContent, currentParams,
                       chunks, regeneratingChunkId, cardEnv >>
  /\ gens' = IF view = "generator" THEN Orphaned(gens) ELSE gens
  /\ regens' = IF view = "generator" THEN Orphaned(regens) ELSE regens
  /\ ev' = Ev("switchView", NoChunkId, << >>, NULL, FALSE, FALSE, {})
  /\ UNCHANGED << now, history, generationCount, opCount, fn >>

\* handleViewHistoryItem, from a card of the ProjectView.
ViewHistoryItem(k) ==
  /\ view = "project"
  /\ k \in 1..Len(history)
  /\ activeHistoryItem' = history[k]
  /\ view' = "generator"
  /\ Mount(history[k])
  /\ ev' = Ev("viewItem", NoChunkId, << >>, history[k].params, FALSE, FALSE, {})
  /\ UNCHANGED << now, history, generationCount, gens, regens, opCount, fn >>

\* clearHistory, confirmed.
ClearHistory ==
  /\ view = "project"
  /\ Len(history) > 0
  /\ history' = << >>
  /\ ev' = Ev("clear", NoChunkId, << >>, NULL, FALSE, FALSE, {})
  /\ UNCHANGED << now, activeHistoryItem, view, generationCount, isLoading,
                  error, generatedContent, currentParams, chunks,
                  regeneratingChunkId, cardEnv, gens, regens, opCount, fn >>

\* Time passes.
Tick ==
  /\ now < (MaxTicks + 1) * DUP_WINDOW_MS
  /\ now' = now + DUP_WINDOW_MS
  /\ ev' = Ev("tick", NoChunkId, << >>, NULL, FALSE, FALSE, {})
  /\ UNCHANGED << history, activeHistoryItem, view, generationCount, isLoading,
                  error, generatedContent, currentParams, chunks,
                  regeneratingChunkId, cardEnv, gens, regens, opCount, fn >>

\* ------------------------------------------------------------------ the chunker and the reassembler alone

Titles == {<< "A" >>, << "B" >>, << "A", " ", "B" >>}

Bodies == {<< "x" >>, << "y" >>, << "x", "\n", "y" >>}

\* A chunk list as parseContent numbers it, from its titles and bodies.
MakeChunks(f) ==
  [i \in DOMAIN f |-> [id |-> ChunkId(i - 1), title |-> f[i][1], content |-> f[i][2]]]

\* Every ordered chunk list of 1..MaxChunks chunks with non-empty titles and
\* bodies over Titles and Bodies.
ChunkLists ==
  {MakeChunks(f) : f \in UNION {[1..n -> Titles \X Bodies] : n \in 1..MaxChunks}}

\* Raw texts that are no reassembly: a response without a heading, a
\* response whose headings are followed by a single line break, the empty
\* and a blank text, one heading-led section after blank lines, a text with
\* '### ' inside a line, and a fourth-level heading.
SampleTexts ==
  {<< "x" >>,
   << "#", "#", "#", " ", "A", "\n", "x", "\n", "#", "#", "#", " ", "B", "\n", "y" >>,
   << >>,
   << " ", "\n" >>,
   << " ", "\n", "#", "#", "#", " ", "A", "\n", "x" >>,
   << "a", " ", "#", "#", "#", " ", "b", "\n", "c" >>,
   << "#", "#", "#", "#", " ", "A", "\n", "x" >>}

\* Bodies of the sections of a response: a plain line, and a line with
\* '### ' inside it.
SectionBodies == {<< "x" >>, << "x", " ", "#", "#", "#", " ", "y" >>}

\* Every list of 2..MaxChunks sections over Titles and SectionBodies.
SectionLists ==
  {MakeChunks(f) :
     f \in UNION {[1..n -> Titles \X SectionBodies] : n \in 2..MaxChunks}}

\* A response made of sections: each a line '### ' + title followed by the
\* body lines.
RECURSIVE SectionText(_)
SectionText(cs) ==
  IF cs = << >> THEN << >>
  ELSE LET one == << "#", "#", "#", " " >> \o cs[1].title \o << "\n" >>
                    \o cs[1].content
       IN  IF Len(cs) = 1 THEN one
           ELSE one \o << "\n" >> \o SectionText(Tail(cs))

ChunkerInit ==
  /\ AppInit
  /\ history = << >>
  /\ \/ \E C \in ChunkLists : fn = [NoFn EXCEPT !.op = "list", !.C = C]
     \/ \E R \in SampleTexts : fn = [NoFn EXCEPT !.op = "raw", !.R = R]
     \/ \E C \in SectionLists :
          fn = [NoFn EXCEPT !.op = "raw", !.C = C, !.R = SectionText(C)]

\* updateFullContentFromChunks applied to the list.
Reassemble ==
  /\ fn.op = "list"
  /\ fn' = [fn EXCEPT !.op = "raw", !.R = updateFullContentFromChunks(fn.C)]
  /\ UNCHANGED appVars

\* parseContent applied to the raw text (ContentOutput's effect).
Chunk ==
  /\ fn.op = "raw"
  /\ fn' = [fn EXCEPT !.op = "chunked", !.out = parseContent(fn.R)]
  /\ UNCHANGED appVars

\* handleUpdateChunk called with chunk i's id and its current body, and the
\* raw text it hands to onUpdateFullContent.
NoopUpdate(i) ==
  /\ fn.op = "chunked"
  /\ i \in 1..Len(fn.out)
  /\ LET newChunks == handleUpdateChunk(fn.out, fn.out[i].id, fn.out[i].content)
     IN  fn' = [fn EXCEPT !.op = "updated", !.id = fn.out[i].id,
                          !.outRaw = updateFullContentFromChunks(newChunks)]
  /\ UNCHANGED appVars

\* handleDeleteChunk called with chunk i's id, the raw text it hands to
\* onUpdateFullContent, and the chunk list ContentOutput's effect derives
\* from that text.  fn.C keeps the list shown before.
DeleteAndRender(i) ==
  /\ fn.op = "chunked"
  /\ i \in 1..Len(fn.out)
  /\ LET newChunks == handleDeleteChunk(fn.out, fn.out[i].id)
         newRaw == updateFullContentFromChunks(newChunks)
     IN  fn' = [fn EXCEPT !.op = "deleted", !.id = fn.out[i].id,
                          !.C = fn.out, !.R = newRaw, !.outRaw = newRaw,
                          !.out = parseContent(newRaw)]
  /\ UNCHANGED appVars

ChunkerNext ==
  \/ Reassemble
  \/ Chunk
  \/ \E i \in 1..MaxChunks : NoopUpdate(i)
  \/ \E i \in 1..MaxChunks : DeleteAndRender(i)

SpecChunker == ChunkerInit /\ [][ChunkerNext]_vars

\* ------------------------------------------------------------------ the prompt builder
\*
\* A prompt is a sequence of tokens: each literal piece of buildPrompt's
\* templates is one token (its line breaks are "\n" tokens), and each
\* interpolated value contributes its own tokens.  An optional field that is
\* not set is Absent, the empty string is << >>.

\* A test that lets the empty string pass.
TruthyUnlessAbsent(v) == v # Absent

\* A value that passes `if (value)`.
Truthy(v) == v # Absent /\ v # << >>

\* `${value}`
Interpolate(v) == IF v = Absent THEN << "undefined" >> ELSE v

\* The hay contains the needle as a contiguous run of tokens.
Contains(hay, needle) ==
  \E i \in 0..(Len(hay) - Len(needle)) :
    SubSeq(hay, i + 1, i + Len(needle)) = needle

CONTENT_TYPES ==
  {<< "Product Description" >>, << "Product Reviews (3)" >>,
   << "Social Media Post" >>, << "Email Campaign" >>,
   << "Blog Post Intro" >>, << "Ad Copy" >>}

BaseInstructions ==
  << "\n",
     "You are an expert, world-class e-commerce copywriter for fashion and jewelry brands. Your writing is sophisticated, engaging, and SEO-optimized.",
     "\n", "\n",
     "**CRITICAL INSTRUCTION:** Your final output should ONLY be the generated content itself, formatted in markdown with \"###\" for each distinct section/title. DO NOT repeat the input parameters like \"Product Name:\", \"Tone:\", etc., in your response. The product name and keywords should be woven naturally into the text.",
     "\n", "\n",
     "---", "\n", "**CONTENT DETAILS**", "\n", "---", "\n" >>

\* `**label:** ${value}\n`
LabelLine(label, v) == << label >> \o Interpolate(v) \o << "\n" >>

\* The same line, appended only when the value is set.
OptionalLine(label, v) == IF Truthy(v) THEN LabelLine(label, v) ELSE << >>

ParameterLines(params) ==
  LabelLine("**Product Name/Link:** ", params.productName)
    \o LabelLine("**Tone of Voice:** ", params.tone)
    \o LabelLine("**Target Audience/Country:** ", params.country)
    \o OptionalLine("**Company Name:** ", params.companyName)
    \o OptionalLine("**Occasion:** ", params.occasion)
    \o OptionalLine("**Brand Voice Guidelines:** ", params.brandVoice)
    \o OptionalLine("**SEO Keywords to include naturally:** ", params.seoKeywords)

GenerationTaskHeader ==
  << "\n", "---", "\n", "**GENERATION TASK**", "\n", "---", "\n" >>

SeoFocus ==
  << "\n",
     "**SEO Focus:** Start with a compelling, SEO-optimized introductory sentence or meta description (under 160 characters) that naturally incorporates the primary keywords. This sentence should serve as a powerful hook." >>

\* The directive gated on the keywords alone.
seoDirectiveKeywordsOnly(params) ==
  IF Truthy(params.seoKeywords) THEN SeoFocus ELSE << >>

seoDirective(params) ==
  IF Truthy(params.seoKeywords) /\ Truthy(params.productName)
  THEN SeoFocus ELSE << >>

\* The length directive without the test against 'Default'.
LengthDirectiveNoDefaultTest(params) ==
  IF Truthy(params.contentLength)
  THEN << " Keep the length " >> \o params.contentLength \o << "." >>
  ELSE << >>

\* `if (params.contentLength && params.contentLength !== 'Default')` of the
\* 'Product Description' case.
LengthDirective(params) ==
  IF Truthy(params.contentLength) /\ params.contentLength # << "Default" >>
  THEN << " Keep the length " >> \o params.contentLength \o << "." >>
  ELSE << >>

\* Every content type given the default's directive.
TaskDirectiveFallbackOnly(params) ==
  << "**Task:** Generate the content as requested." >>

\* The `switch (params.contentType)` of buildPrompt.
\* The five star glyphs of the reviews directive are written *****.
TaskDirective(params) ==
  CASE params.contentType = << "Product Description" >> ->
         << "**Task:** Write a compelling product description." >>
           \o seoDirective(params)
           \o << " Then, detail the key features and benefits, and end with a call to action. Weave the SEO keywords throughout the description." >>
           \o LengthDirective(params)
    [] params.contentType = << "Product Reviews (3)" >> ->
         << "**Task:** Generate three distinct and realistic product reviews from different customer personas (e.g., a gift buyer, a long-time fan, a first-time customer)." >>
           \o (IF Truthy(params.starRating)
               THEN << " The reviews should reflect a " >> \o params.starRating
                      \o << " rating. You can represent the stars visually (e.g., *****). Do not add any other metadata like 'Product Name' to the review body." >>
               ELSE << >>)
    [] params.contentType = << "Social Media Post" >> ->
         << "**Task:** Create an engaging social media post suitable for platforms like Instagram or Facebook." >>
           \o seoDirective(params)
           \o << " Include relevant, popular hashtags at the end." >>
    [] params.contentType = << "Email Campaign" >> ->
         << "**Task:** Write copy for an email campaign. It MUST include an attention-grabbing subject line and a clear call-to-action (CTA) button text." >>
           \o seoDirective(params)
           \o << " The email body should expand on this hook. Format it like:",
                 "\n", "### Subject: [Your Subject Here]", "\n", "\n",
                 "[Email body here]", "\n", "\n",
                 "### CTA Button: [Your CTA Text Here]" >>
    [] params.contentType = << "Blog Post Intro" >> ->
         << "**Task:** Write an introductory paragraph for a blog post about this product." >>
           \o seoDirective(params)
           \o << " It should hook the reader and briefly state what the post will cover." >>
    [] params.contentType = << "Ad Copy" >> ->
         << "**Task:** Write two short, punchy ad copy variations. Each should have a clear headline and a concise body text. Format it like:",
            "\n", "### Ad 1: [Headline]", "\n", "\n", "[Body]", "\n", "\n",
            "### Ad 2: [Headline]", "\n", "\n", "[Body]" >>
    [] OTHER ->
         << "**Task:** Generate the content as requested." >>

AdditionalRequirements(params) ==
  (IF params.generateAbTest
   THEN << "\n", "**Also generate one A/B test variant** for the primary content. Title it \"### A/B Test Variant: [Original Title]\"." >>
   ELSE << >>)
  \o (IF params.generateSocialPost
         /\ params.contentType # << "Social Media Post" >>
      THEN << "\n", "**Also generate a related social media post**. Title it \"### Social Media Post\"." >>
      ELSE << >>)

\* basePrompt as it stands when buildPrompt reaches its regeneration test.
basePrompt(params) ==
  BaseInstructions
    \o ParameterLines(params)
    \o GenerationTaskHeader
    \o LabelLine("**Content Type to Generate:** ", params.contentType)
    \o TaskDirective(params)
    \o << "\n" >>
    \o AdditionalRequirements(params)

\* The last piece appended to the prompt of a generation.
ClosingInstruction ==
  << "\n", "Now, generate the content based on these instructions." >>

RegenOpening ==
  << "\n",
     "You are an expert e-commerce copywriter. Based on the original parameters provided below, your task is to regenerate ONLY the content for the section titled \"" >>

RegenInstruction ==
  << "\". ", "\n", "\n",
     "**CRITICAL INSTRUCTION:** Provide ONLY the new text for this section. Do not include the title or any markdown like \"###\". Just the raw, regenerated content.",
     "\n", "\n",
     "---", "\n", "**ORIGINAL PARAMETERS**", "\n", "---", "\n" >>

\* The wrapper around the complete prompt of a generation.
RegenWrapperAroundFullPrompt(base, chunkToRegen) ==
  RegenOpening \o chunkToRegen.title \o RegenInstruction
    \o base \o ClosingInstruction \o << "\n" >>

\* The template returned by `if (chunkToRegen)`.
RegenWrapper(base, chunkToRegen) ==
  RegenOpening \o chunkToRegen.title \o RegenInstruction \o base \o << "\n" >>

\* No chunkToRegen argument.
NoChunk == [id |-> NoChunkId, title |-> << >>, content |-> << >>]

buildPrompt(params, chunkToRegen) ==
  IF chunkToRegen # NoChunk
  THEN RegenWrapper(basePrompt(params), chunkToRegen)
  ELSE basePrompt(params) \o ClosingInstruction

\* Values of the form's fields.
OptionalTexts(v) == {Absent, << >>, << v >>}

PromptParams ==
  [productName        : {<< >>, << "Aurora", " ", "Necklace" >>},
   tone               : {<< "Professional" >>},
   country            : {<< "USA" >>},
   contentType        : CONTENT_TYPES \cup {<< "Press Release" >>},
   contentLength      : {Absent, << >>, << "Default" >>, << "Short" >>},
   starRating         : OptionalTexts("5 Stars"),
   seoKeywords        : OptionalTexts("gold necklace"),
   companyName        : OptionalTexts("Aurora & Co"),
   occasion           : {Absent, << "Wedding" >>},
   brandVoice         : {Absent, << "Warm and witty" >>},
   generateAbTest     : BOOLEAN,
   generateSocialPost : BOOLEAN]

\* Chunks a card can ask to regenerate: parsed from a response.
PromptChunks ==
  {[id |-> ChunkId(0), title |-> << "Ad", " ", "1:", " ", "Shine" >>,
    content |-> << "x" >>],
   [id |-> ChunkId(1), title |-> << "Social", " ", "Media", " ", "Post" >>,
    content |-> << "y" >>]}

PromptInit ==
  /\ AppInit
  /\ history = << >>
  /\ \E p \in PromptParams :
       fn = [op |-> "params", params |-> p, chunkToRegen |-> NoChunk,
             prompt |-> << >>]

\* streamGeneratedContent builds the prompt of a generation.
StreamPrompt ==
  /\ fn.op = "params"
  /\ fn' = [fn EXCEPT !.op = "prompt", !.prompt = buildPrompt(fn.params, NoChunk)]
  /\ UNCHANGED appVars

\* regenerateContentChunk builds the prompt for one chunk.
RegenPrompt(c) ==
  /\ fn.op = "params"
  /\ fn' = [fn EXCEPT !.op = "regenPrompt", !.chunkToRegen = c,
                      !.prompt = buildPrompt(fn.params, c)]
  /\ UNCHANGED appVars

PromptNext ==
  \/ StreamPrompt
  \/ \E c \in PromptChunks : RegenPrompt(c)

SpecPrompt == PromptInit /\ [][PromptNext]_vars

\* ------------------------------------------------------------------ regenerations alone
\*
\* The stored record is open in the generator view and the regeneration of
\* its first chunk is in flight: the state after AppInit with the stored
\* record, SwitchView("project"), ViewHistoryItem(1) and StartRegen(1), with
\* the count of chunk operations starting from here.
RegenInit ==
  LET opened == parseContent(Text(StoredItem.generatedContent))
      env == EnvOf(<< StoredItem >>, StoredItem, StoredItem.params)
  IN  /\ now = DUP_WINDOW_MS
      /\ history = << StoredItem >>
      /\ activeHistoryItem = StoredItem
      /\ view = "generator"
      /\ generationCount = 0
      /\ isLoading = FALSE
      /\ error = NULL
      /\ generatedContent = StoredItem.generatedContent
      /\ currentParams = StoredItem.params
      /\ chunks = opened
      /\ regeneratingChunkId = opened[1].id
      /\ cardEnv = env
      /\ gens = {}
      /\ regens = {[chunk |-> opened[1], list |-> opened, env |-> env,
                    live |-> TRUE, seen |-> {}]}
      /\ opCount = 0
      /\ ev = Ev("regenStart", opened[1].id, << >>, env.params, TRUE, TRUE, {})
      /\ fn = NoFn

RegenNext ==
  \/ \E i \in 1..MaxChunks : StartRegen(i)
  \/ \E r \in regens, reply \in Replies : RegenResolve(r, reply)
  \/ \E r \in regens, reply \in Replies : RegenReject(r, reply)

SpecRegen == RegenInit /\ [][RegenNext]_vars

\* ------------------------------------------------------------------ one card
\*
\* The ContentCard of the first chunk of a list, with the clock of its
\* timers: content is the textarea's state, debounced the state of
\* useDebounce, timer the deadline of the pending setTimeout.  lastKey and
\* lastTyped record the time and the value of the last keystroke.

DEBOUNCE_MS == 500

MaxCardSteps == 7

NoTimer == -1

\* The clock advances by half the delay.
TickMs == DEBOUNCE_MS \div 2

TypedTexts == {<< "e" >>, << "x" >>}

\* chunk.content of the card showing the chunk with this id.
ChunkBody(list, id) ==
  LET at == {i \in 1..Len(list) : list[i].id = id}
  IN  IF at = {} THEN << >> ELSE list[SetMin(at)].content

\* The raw texts a card can be mounted on: a response without a heading, and
\* the stored record's two sections.
CardTexts == {<< "x" >>, StoredItem.generatedContent}

CardInit ==
  /\ AppInit
  /\ history = << >>
  /\ \E R \in CardTexts :
       LET list == parseContent(R)
       IN  fn = [op |-> "mounted", R |-> R, C |-> list, id |-> list[1].id,
                 content |-> list[1].content, debounced |-> list[1].content,
                 timer |-> DEBOUNCE_MS, clock |-> 0, lastKey |-> NoTimer,
                 lastTyped |-> << >>, committed |-> << >>, steps |-> 0]

\* The chunk list and raw text after onUpdate(id, text) and the render that
\* follows, then the card's effect on [chunk.content] and useDebounce's
\* effect on [value].
CardAfterUpdate(c, op, text, debounced) ==
  LET newChunks == handleUpdateChunk(c.C, c.id, text)
      newRaw == updateFullContentFromChunks(newChunks)
      shown == IF newRaw # c.R THEN parseContent(newRaw) ELSE newChunks
      oldBody == ChunkBody(c.C, c.id)
      newBody == ChunkBody(shown, c.id)
      newContent == IF newBody # oldBody THEN newBody ELSE c.content
  IN  [c EXCEPT !.op = op, !.R = newRaw, !.C = shown,
                !.content = newContent, !.debounced = debounced,
                !.timer = IF newContent # c.content
                          THEN c.clock + DEBOUNCE_MS
                          ELSE IF op = "commit" THEN NoTimer ELSE c.timer,
                !.committed = IF op = "commit" THEN text ELSE c.committed,
                !.steps = c.steps + 1]

\* A keystroke that leaves the pending timer running.
KeystrokeKeepsTimer(v) ==
  /\ fn.steps < MaxCardSteps
  /\ v # fn.content
  /\ fn' = [fn EXCEPT !.op = "key", !.content = v,
                      !.lastKey = fn.clock, !.lastTyped = v,
                      !.steps = fn.steps + 1]
  /\ UNCHANGED appVars

\* handleTextChange: a keystroke leaves v in the textarea, and useDebounce's
\* effect on [value] replaces the pending timer.
Keystroke(v) ==
  /\ fn.steps < MaxCardSteps
  /\ v # fn.content
  /\ fn' = [fn EXCEPT !.op = "key", !.content = v,
                      !.timer = fn.clock + DEBOUNCE_MS,
                      !.lastKey = fn.clock, !.lastTyped = v,
                      !.steps = fn.steps + 1]
  /\ UNCHANGED appVars

\* Time passes, not beyond the deadline of a pending timer.
CardTick ==
  /\ fn.steps < MaxCardSteps
  /\ fn.timer = NoTimer \/ fn.clock + TickMs <= fn.timer
  /\ fn' = [fn EXCEPT !.op = "tick", !.clock = fn.clock + TickMs,
                      !.steps = fn.steps + 1]
  /\ UNCHANGED appVars

\* useDebounce's timeout runs: setDebouncedValue(value), and, when the
\* debounced value changed, the card's effect on [debouncedContent].
TimerFires ==
  /\ fn.steps < MaxCardSteps
  /\ fn.timer # NoTimer
  /\ fn.clock >= fn.timer
  /\ IF fn.content # fn.debounced /\ fn.content # ChunkBody(fn.C, fn.id)
     THEN fn' = CardAfterUpdate(fn, "commit", fn.content, fn.content)
     ELSE fn' = [fn EXCEPT !.op = "fired", !.debounced = fn.content,
                           !.timer = NoTimer, !.steps = fn.steps + 1]
  /\ UNCHANGED appVars

\* A regeneration of the card's chunk completes with the body 'z'.
CardRegenerated ==
  /\ fn.steps < MaxCardSteps
  /\ fn' = CardAfterUpdate(fn, "regenerated", << "z" >>, fn.debounced)
  /\ UNCHANGED appVars

CardNext ==
  \/ \E v \in TypedTexts : Keystroke(v)
  \/ CardTick
  \/ TimerFires
  \/ CardRegenerated

SpecCard == CardInit /\ [][CardNext]_vars

\* ------------------------------------------------------------------ the application

Init == AppInit /\ fn = NoFn

Next ==
  \/ \E P \in Params, s \in Streams : Generate(P, s)
  \/ \E g \in gens : GenFragment(g)
  \/ \E g \in gens : GenComplete(g)
  \/ \E g \in gens : GenFail(g)
  \/ \E i \in 1..MaxChunks, e \in EditTexts : UpdateChunk(i, e)
  \/ \E i \in 1..MaxChunks : DeleteChunk(i)
  \/ \E i \in 1..MaxChunks : StartRegen(i)
  \/ \E r \in regens, reply \in Replies : RegenResolve(r, reply)
  \/ \E r \in regens, reply \in Replies : RegenReject(r, reply)
  \/ \E v \in Views : SwitchView(v)
  \/ \E k \in 1..(1 + MaxGens + MaxOps) : ViewHistoryItem(k)
  \/ ClearHistory
  \/ Tick

Spec == Init /\ [][Next]_vars

\* ------------------------------------------------------------------ claims

\* C1: round trip.  For every ordered chunk list C of length >= 1 whose
\* titles and bodies are non-empty, parseContent applied to the reassembled
\* text of C returns a list of the same length whose i-th title and i-th
\* body are those of the i-th chunk of C.
C1_RoundTrip ==
  (fn.op = "chunked" /\ fn.C # << >>
     /\ fn.R = updateFullContentFromChunks(fn.C)) =>
    /\ Len(fn.out) = Len(fn.C)
    /\ \A i \in 1..Len(fn.C) :
         i <= Len(fn.out) =>
           /\ fn.out[i].title = fn.C[i].title
           /\ fn.out[i].content = fn.C[i].content

\* C2 as stated: for any displayed raw text R, handleUpdateChunk called with
\* some chunk's id and that chunk's current body, followed by reassembly,
\* produces a raw text equal to R.
C2_NoopEditKeepsRaw ==
  fn.op = "updated" => fn.outRaw = fn.R

\* C2 as amended: the no-op edit produces the reassembly of parseContent(R),
\* which is R whenever R already is the reassembly of its own chunk list.
C2_NoopEditReassembles ==
  fn.op = "updated" =>
    /\ fn.outRaw = updateFullContentFromChunks(parseContent(fn.R))
    /\ (fn.R = updateFullContentFromChunks(parseContent(fn.R)) => fn.outRaw = fn.R)

\* A no-op edit of a two-chunk text with different bodies that is its own
\* reassembly, handing back that text.
C2_Witness ==
  /\ fn.op = "updated"
  /\ Len(fn.out) = 2
  /\ fn.out[1].content # fn.out[2].content
  /\ fn.R = updateFullContentFromChunks(parseContent(fn.R))
  /\ fn.outRaw = fn.R

\* C3: single-chunk regeneration changes only the target.  When a
\* regeneration of chunk X completes successfully and no other chunk
\* operation happened meanwhile, the chunk list shown afterwards has the same
\* length and order, X's title is unchanged, X's body is the trimmed
\* response, every other chunk is unchanged, and the raw text is the
\* reassembly of that list.  (Stated for a non-empty trimmed response.)
C3_RegenChangesOnlyTarget ==
  [][(ev'.op = "regenOk" /\ ev'.live /\ ev'.fresh /\ ev'.text # << >>) =>
       /\ Len(chunks') = Len(chunks)
       /\ \A i \in 1..Len(chunks) :
            i <= Len(chunks') =>
              /\ chunks'[i].title = chunks[i].title
              /\ chunks'[i].content = IF chunks[i].id = ev'.id THEN ev'.text
                                      ELSE chunks[i].content
       /\ generatedContent' = updateFullContentFromChunks(chunks')]_vars

\* C4: overlapping regenerations of different chunks are independent.  When
\* a regeneration of B completes after a regeneration of A completed during
\* its flight, the chunk list still carries the new body A was given: the
\* completion of B leaves the body of A as it found it.  (Stated for
\* non-empty new bodies.)
C4_OverlappingRegensIndependent ==
  [][(ev'.op = "regenOk" /\ ev'.live /\ ev'.text # << >>) =>
       \A d \in ev'.seen :
         (d.id # ev'.id /\ d.content # << >>) =>
           \A i \in 1..Len(chunks) :
             (chunks[i].id = d.id /\ chunks[i].content = d.content) =>
               /\ i <= Len(chunks')
               /\ chunks'[i].id = d.id
               /\ chunks'[i].content = d.content]_vars

\* C5: the number of history records grows only when a generation completes
\* successfully: no edit, deletion, single-chunk regeneration or failed
\* generation adds a record.
C5_HistoryGrowsOnlyOnGeneration ==
  [][Len(history') > Len(history) => ev'.op = "genOk"]_vars

\* C6: after a generation with parameters P completes successfully with final
\* text T, the history contains a record whose params are P and whose
\* generatedContent is T, whether or not a record was active at its start.
C6_GenerationRecorded ==
  ev.op = "genOk" =>
    \E k \in 1..Len(history) :
      /\ history[k].params = ev.params
      /\ history[k].generatedContent = ev.text

\* C7: while a record loaded from history is the active item, a chunk edit,
\* deletion or regeneration replaces only that record's generatedContent:
\* the history's length and order, that record's id, params and createdAt,
\* and every other record are unchanged.  (Stated for the operations of the
\* view that shows the active record.)
C7_ActiveRecordUpdatedInPlace ==
  [][(ev'.op \in {"update", "delete", "regenOk"} /\ ev'.live
        /\ HasItem(history, activeHistoryItem)) =>
       /\ Len(history') = Len(history)
       /\ \A k \in 1..Len(history) :
            k <= Len(history') =>
              IF history[k].id = activeHistoryItem.id
              THEN history'[k] =
                     [history[k] EXCEPT
                        !.generatedContent = history'[k].generatedContent]
              ELSE history'[k] = history[k]]_vars

\* C8: an empty response is a failure that changes nothing.  When the
\* one-shot call answers an empty or absent text, regenerateContentChunk
\* rejects, and handleRegenerateChunk leaves the chunk list, the raw text and
\* the history unchanged and resets regeneratingChunkId to null.
C8_EmptyResponseChangesNothing ==
  [][(ev'.op \in {"regenOk", "regenFail"}
        /\ ev'.reply.kind = "text"
        /\ ev'.reply.text \in {Absent, << >>}) =>
       /\ ev'.op = "regenFail"
       /\ chunks' = chunks
       /\ generatedContent' = generatedContent
       /\ history' = history
       /\ (ev'.live => regeneratingChunkId' = NoChunkId)]_vars

\* A regeneration of a card on screen that was answered with an empty text
\* has just been rejected.
C8_Witness ==
  /\ ev.op = "regenFail"
  /\ ev.reply = [kind |-> "text", text |-> << >>]
  /\ ev.live
  /\ chunks # << >>
  /\ regeneratingChunkId = NoChunkId

\* C9: a single-chunk regeneration applied as a success never sets a chunk's
\* body to the empty string.
C9_RegenBodyNeverEmpty ==
  ev.op = "regenOk" => ev.text # << >>

\* C10 as stated: when a streaming generation fails mid-way, the displayed
\* raw content still is the concatenation of the fragments received before
\* the failure, the error is surfaced and loading ends.
C10_PartialContentKept ==
  (ev.op = "genFail" /\ ev.live /\ ev.text # << >>) =>
    /\ generatedContent = ev.text
    /\ error # NULL
    /\ ~isLoading

\* C10 as amended: when a streaming generation fails, handleGenerate discards
\* what was displayed: the raw content is null and the chunk list empty,
\* while the error is surfaced and loading ends.
C10_FailureClearsContent ==
  (ev.op = "genFail" /\ ev.live) =>
    /\ generatedContent = NullText
    /\ chunks = << >>
    /\ error # NULL
    /\ ~isLoading

\* A generation on screen has just failed after it had delivered a fragment.
C10_Witness ==
  /\ ev.op = "genFail"
  /\ ev.live
  /\ ev.text # << >>
  /\ generatedContent = NullText
  /\ error # NULL

\* C11: streaming accumulation.  When streamGeneratedContent resolves, its
\* callback has been invoked exactly once for every fragment of text the
\* stream delivered, in arrival order, it resolves with the concatenation of
\* all fragments, and that is the text the generator view has accumulated.
C11_StreamAccumulated ==
  [][ev'.op = "genOk" =>
       \A g \in gens \ gens' :
         /\ g.calls = TextFragments(g.stream)
         /\ g.acc = Concat(g.stream)
         /\ ev'.text = g.acc
         /\ (g.live => generatedContent' = g.acc)]_vars

\* C12: the chunk list is a derived view of the raw text.  In every state
\* (each action includes the render effects that follow it) the displayed
\* chunk list is parseContent applied to the current raw text.
C12_ChunksDerivedFromRaw ==
  chunks = parseContent(Text(generatedContent))

\* C13: a chunk's id is stable within one generation session.  Across the
\* deletion of another chunk (and the render that follows it), a chunk
\* (followed by its position of origin and its title) keeps its id.
C13_ChunkIdStable ==
  fn.op = "deleted" =>
    \A i \in 1..Len(fn.C) :
      LET gone == {d \in 1..Len(fn.C) : fn.C[d].id = fn.id}
          j == i - Cardinality({d \in gone : d < i})
      IN  (/\ i \notin gone
           /\ j \in 1..Len(fn.out)
           /\ fn.out[j].title = fn.C[i].title) =>
            fn.out[j].id = fn.C[i].id

C15_EmptyIffBlank ==
  fn.op = "chunked" =>
    (fn.out = << >> <=> \A k \in 1..Len(fn.R) : fn.R[k] \in {" ", "\n"})

\* A whitespace-only text has been chunked into the empty list.
C15_Witness ==
  /\ fn.op = "chunked"
  /\ fn.R # << >>
  /\ \A k \in 1..Len(fn.R) : fn.R[k] \in {" ", "\n"}
  /\ fn.out = << >>

\* C16: heading split.  For a text made of k >= 2 sections, each a line
\* '### ' + title followed by body lines, parseContent returns exactly k
\* chunks in order, each with the section's title and body, trimmed.
C16_HeadingSplit ==
  (fn.op = "chunked" /\ Len(fn.C) >= 2 /\ fn.R = SectionText(fn.C)) =>
    /\ Len(fn.out) = Len(fn.C)
    /\ \A i \in 1..Len(fn.C) :
         i <= Len(fn.out) =>
           /\ fn.out[i].title = Trim(fn.C[i].title)
           /\ fn.out[i].content = Trim(fn.C[i].content)

\* C17: parseContent places a segment boundary only before a line that
\* begins with '###' followed by whitespace: '###' + whitespace elsewhere in
\* a line creates no boundary and no extra chunk.
C17_BoundaryOnlyAtLineStart ==
  LET R == fn.R
      lineStarts == {q \in 1..(Len(R) - 3) :
                       /\ R[q] = "#" /\ R[q + 1] = "#" /\ R[q + 2] = "#"
                       /\ R[q + 3] \in {" ", "\n"}
                       /\ (q = 1 \/ R[q - 1] = "\n")}
  IN  fn.op = "chunked" =>
        /\ SplitPoints(R) \subseteq lineStarts
        /\ Len(fn.out) <= Cardinality(lineStarts) + 1

\* C18: chunk ids are positional.  The i-th chunk (zero-based) parseContent
\* returns has id 'chunk-i', so the ids of one list are pairwise distinct.
C18_PositionalIds ==
  fn.op = "chunked" =>
    /\ \A i \in 1..Len(fn.out) : fn.out[i].id = << "chunk-", i - 1 >>
    /\ \A i, j \in 1..Len(fn.out) : i # j => fn.out[i].id # fn.out[j].id

\* A text has been chunked into three chunks.
C18_Witness ==
  /\ fn.op = "chunked"
  /\ Len(fn.out) = 3
  /\ fn.out[3].id = << "chunk-", 2 >>

\* C19: reassembler output.  After every chunk delete, edit or regeneration
\* the raw text and the text saved to history are, for each chunk of the
\* mutated list in order, '### ' + title, a blank line, then the body, with
\* consecutive chunks separated by a blank line; the empty list gives the
\* empty string.
C19_ReassemblerOutput ==
  [][(ev'.op \in {"update", "delete", "regenOk"} /\ ev'.live /\ ev'.fresh) =>
       LET keep(c) == c.id # ev'.id
           mutated ==
             IF ev'.op = "delete" THEN SelectSeq(chunks, keep)
             ELSE [i \in 1..Len(chunks) |->
                     IF chunks[i].id = ev'.id
                     THEN [chunks[i] EXCEPT !.content = ev'.text]
                     ELSE chunks[i]]
           upTo[n \in 0..Len(mutated)] ==
             IF n = 0 THEN << >>
             ELSE (IF n = 1 THEN << >> ELSE upTo[n - 1] \o << "\n", "\n" >>)
                    \o << "#", "#", "#", " " >> \o mutated[n].title
                    \o << "\n", "\n" >> \o mutated[n].content
           expected == upTo[Len(mutated)]
       IN  /\ generatedContent' = expected
           /\ \E k \in 1..Len(history') :
                history'[k].generatedContent = expected]_vars

\* The only chunk on screen has just been deleted: the raw text and the text
\* saved to history are the empty string.
C19_Witness ==
  /\ ev.op = "delete"
  /\ ev.live
  /\ generatedContent = << >>
  /\ \E k \in 1..Len(history) : history[k].generatedContent = << >>

\* C20 as stated: when a target chunk is supplied, buildPrompt returns a
\* wrapper, different from the prompt of a generation, that contains the
\* chunk's title and contains the whole prompt that buildPrompt returns for
\* the same parameters without a target chunk.
C20_WrapperContainsFullPrompt ==
  fn.op = "regenPrompt" =>
    /\ fn.prompt # buildPrompt(fn.params, NoChunk)
    /\ Contains(fn.prompt, fn.chunkToRegen.title)
    /\ Contains(fn.prompt, buildPrompt(fn.params, NoChunk))

\* C20: regeneration wrapping.  When a target chunk is supplied, buildPrompt
\* returns a wrapper, different from the prompt of a generation, that quotes
\* the chunk's title and contains the prompt of a generation for the same
\* parameters up to, but not including, its closing line 'Now, generate the
\* content based on these instructions.', which the wrapper does not contain.
C20_WrapperContainsBasePrompt ==
  fn.op = "regenPrompt" =>
    LET full == buildPrompt(fn.params, NoChunk)
        cut  == Len(full) - Len(ClosingInstruction)
    IN  /\ fn.prompt # full
        /\ Contains(fn.prompt,
                    << RegenOpening[Len(RegenOpening)] >>
                      \o fn.chunkToRegen.title \o << RegenInstruction[1] >>)
        /\ cut > 0
        /\ SubSeq(full, cut + 1, Len(full)) = ClosingInstruction
        /\ Contains(fn.prompt, SubSeq(full, 1, cut))
        /\ ~Contains(fn.prompt, ClosingInstruction)

\* A regeneration prompt has been built for the chunk titled 'Ad 1: Shine'
\* of an Ad Copy request with every optional field set.
C20_Witness ==
  /\ fn.op = "regenPrompt"
  /\ fn.chunkToRegen.title = << "Ad", " ", "1:", " ", "Shine" >>
  /\ fn.params.contentType = << "Ad Copy" >>
  /\ Truthy(fn.params.seoKeywords)
  /\ Truthy(fn.params.companyName)
  /\ fn.params.generateAbTest
  /\ Contains(fn.prompt, fn.chunkToRegen.title)

\* C21 as stated: for every parameter set and every content type, the prompt
\* contains the 'SEO Focus' directive if and only if both seoKeywords and
\* productName are non-empty.
C21_SeoHookForEveryType ==
  fn.op \in {"prompt", "regenPrompt"} =>
    (Contains(fn.prompt, SeoFocus)
       <=> (Truthy(fn.params.seoKeywords) /\ Truthy(fn.params.productName)))

\* C21: SEO-hook gating.  The prompt contains the 'SEO Focus' directive if
\* and only if both seoKeywords and productName are non-empty and the
\* content type is one of 'Product Description', 'Social Media Post', 'Email
\* Campaign' and 'Blog Post Intro'.
C21_SeoHookGating ==
  fn.op \in {"prompt", "regenPrompt"} =>
    (Contains(fn.prompt, SeoFocus)
       <=> /\ fn.params.seoKeywords \notin {Absent, << >>}
           /\ fn.params.productName \notin {Absent, << >>}
           /\ fn.params.contentType \in
                {<< "Product Description" >>, << "Social Media Post" >>,
                 << "Email Campaign" >>, << "Blog Post Intro" >>})

\* The prompt of an Email Campaign with keywords and a product name carries
\* the SEO hook.
C21_Witness ==
  /\ fn.op = "prompt"
  /\ fn.params.contentType = << "Email Campaign" >>
  /\ fn.params.seoKeywords = << "gold necklace" >>
  /\ fn.params.productName # << >>
  /\ Contains(fn.prompt, SeoFocus)

\* C22: length-directive gating.  The prompt contains the directive 'Keep
\* the length <value>.' if and only if contentLength is set, is not
\* 'Default', and contentType is 'Product Description'.
C22_LengthDirectiveGating ==
  fn.op \in {"prompt", "regenPrompt"} =>
    LET wanted == /\ fn.params.contentLength \notin {Absent, << >>}
                  /\ fn.params.contentLength # << "Default" >>
                  /\ fn.params.contentType = << "Product Description" >>
    IN  /\ Contains(fn.prompt, << " Keep the length " >>) <=> wanted
        /\ wanted =>
             Contains(fn.prompt,
                      << " Keep the length " >> \o fn.params.contentLength
                        \o << "." >>)

\* The prompt of a Product Description of length 'Short' carries the
\* directive.
C22_Witness ==
  /\ fn.op = "prompt"
  /\ fn.params.contentType = << "Product Description" >>
  /\ fn.params.contentLength = << "Short" >>
  /\ Contains(fn.prompt, << " Keep the length ", "Short", "." >>)

\* C23: content-type dispatch is total and exclusive.  For each of the six
\* defined content types the prompt contains that type's task directive and
\* no other type's (for 'Ad Copy' the '### Ad 1:' / '### Ad 2:' template),
\* for any other value it contains the generic fallback directive, and in
\* every case the product-name and tone lines carry the given values.
C23_DispatchTotalExclusive ==
  fn.op \in {"prompt", "regenPrompt"} =>
    LET opening ==
          [t \in CONTENT_TYPES |->
             CASE t = << "Product Description" >> ->
                    "**Task:** Write a compelling product description."
               [] t = << "Product Reviews (3)" >> ->
                    "**Task:** Generate three distinct and realistic product reviews from different customer personas (e.g., a gift buyer, a long-time fan, a first-time customer)."
               [] t = << "Social Media Post" >> ->
                    "**Task:** Create an engaging social media post suitable for platforms like Instagram or Facebook."
               [] t = << "Email Campaign" >> ->
                    "**Task:** Write copy for an email campaign. It MUST include an attention-grabbing subject line and a clear call-to-action (CTA) button text."
               [] t = << "Blog Post Intro" >> ->
                    "**Task:** Write an introductory paragraph for a blog post about this product."
               [] t = << "Ad Copy" >> ->
                    "**Task:** Write two short, punchy ad copy variations. Each should have a clear headline and a concise body text. Format it like:"]
        fallback == "**Task:** Generate the content as requested."
        adTemplate ==
          << "\n", "### Ad 1: [Headline]", "\n", "\n", "[Body]", "\n", "\n",
             "### Ad 2: [Headline]", "\n", "\n", "[Body]" >>
        type == fn.params.contentType
    IN  /\ \A t \in CONTENT_TYPES :
             Contains(fn.prompt, << opening[t] >>) <=> t = type
        /\ Contains(fn.prompt, << fallback >>) <=> type \notin CONTENT_TYPES
        /\ Contains(fn.prompt, adTemplate) <=> type = << "Ad Copy" >>
        /\ Contains(fn.prompt,
                    << "**Product Name/Link:** " >> \o fn.params.productName
                      \o << "\n" >>)
        /\ Contains(fn.prompt,
                    << "**Tone of Voice:** " >> \o fn.params.tone \o << "\n" >>)

\* The prompt of an Ad Copy request for 'Aurora Necklace' in a Professional
\* tone carries the two-variant template.
C23_Witness ==
  /\ fn.op = "prompt"
  /\ fn.params.contentType = << "Ad Copy" >>
  /\ fn.params.productName = << "Aurora", " ", "Necklace" >>
  /\ fn.params.tone = << "Professional" >>
  /\ Contains(fn.prompt, << "### Ad 1: [Headline]" >>)
  /\ Contains(fn.prompt, << "### Ad 2: [Headline]" >>)

\* C24: presence-gated optional fields.  For each of companyName, occasion,
\* brandVoice, seoKeywords, starRating and contentLength, the prompt built
\* with the field absent equals the prompt built with the field empty, and
\* a field that is absent or empty leaves the prompt what it is without it.
C24_OptionalFieldsGated ==
  fn.op \in {"prompt", "regenPrompt"} =>
    LET p == fn.params
        c == fn.chunkToRegen
        same(without, withEmpty, v) ==
          /\ buildPrompt(without, c) = buildPrompt(withEmpty, c)
          /\ (v \in {Absent, << >>} => fn.prompt = buildPrompt(without, c))
    IN  /\ same([p EXCEPT !.companyName = Absent],
                [p EXCEPT !.companyName = << >>], p.companyName)
        /\ same([p EXCEPT !.occasion = Absent],
                [p EXCEPT !.occasion = << >>], p.occasion)
        /\ same([p EXCEPT !.brandVoice = Absent],
                [p EXCEPT !.brandVoice = << >>], p.brandVoice)
        /\ same([p EXCEPT !.seoKeywords = Absent],
                [p EXCEPT !.seoKeywords = << >>], p.seoKeywords)
        /\ same([p EXCEPT !.starRating = Absent],
                [p EXCEPT !.starRating = << >>], p.starRating)
        /\ same([p EXCEPT !.contentLength = Absent],
                [p EXCEPT !.contentLength = << >>], p.contentLength)

\* A prompt has been built from a form whose company name, keywords, star
\* rating and length are the empty string.
C24_Witness ==
  /\ fn.op = "prompt"
  /\ fn.params.companyName = << >>
  /\ fn.params.seoKeywords = << >>
  /\ fn.params.starRating = << >>
  /\ fn.params.contentLength = << >>
  /\ fn.params.contentType = << "Product Reviews (3)" >>
  /\ ~Contains(fn.prompt, << "**Company Name:** " >>)

\* C25: history records are removed only by clear-all.  A record leaves the
\* history only when the user confirms clear-all, which empties the whole
\* list; no generation completion and no chunk operation removes an existing
\* record or replaces it by another one.
C25_RecordsRemovedOnlyByClear ==
  [][(\E k \in 1..Len(history) :
        \A j \in 1..Len(history') : history'[j].id # history[k].id) =>
       (ev'.op = "clear" /\ history' = << >>)]_vars

\* C26: last writer wins for the same chunk.  When a regeneration of a chunk
\* completes successfully after another regeneration of the same chunk
\* completed during its flight, the chunk's body is the response of this
\* last completion and every other chunk is as it was.  (Stated for
\* non-empty new bodies.)
C26_LastWriterWins ==
  [][(ev'.op = "regenOk" /\ ev'.live /\ ev'.text # << >>
        /\ (\A d \in ev'.seen : d.content # << >>)
        /\ \E d \in ev'.seen : d.id = ev'.id) =>
       /\ Len(chunks') = Len(chunks)
       /\ \A i \in 1..Len(chunks) :
            i <= Len(chunks') =>
              /\ chunks'[i].title = chunks[i].title
              /\ chunks'[i].content = IF chunks[i].id = ev'.id THEN ev'.text
                                      ELSE chunks[i].content]_vars

\* C27: debounced commit.  A body typed in a ContentCard is committed only
\* after 500 ms without a keystroke (a keystroke inside the window cancels
\* the pending commit), the value committed is the latest typed value, and
\* nothing is committed when that value equals the chunk's current body:
\* the chunk list changes only by a commit or a regeneration.
C27_DebouncedCommit ==
  [][/\ fn'.op = "commit" =>
          /\ fn.lastKey # NoTimer
          /\ fn'.clock - fn.lastKey >= 500
          /\ fn'.committed = fn.lastTyped
          /\ fn'.committed # ChunkBody(fn.C, fn.id)
     /\ fn'.R # fn.R => fn'.op \in {"commit", "regenerated"}]_vars

\* The card of chunk A has just committed 'e', typed 250 ms after it was
\* mounted and left alone for 500 ms.
C27_Witness ==
  /\ fn.op = "commit"
  /\ fn.committed = << "e" >>
  /\ fn.lastKey = TickMs
  /\ fn.clock = TickMs + DEBOUNCE_MS
  /\ ChunkBody(fn.C, fn.id) = << "e" >>
  /\ Len(fn.C) = 2

\* C28: a deleted chunk stays deleted.  A chunk the user has just deleted
\* (a chunk of the list an in-flight regeneration started from, carrying the
\* deleted id, whose title is no longer on screen) is neither in the chunk
\* list nor in the raw text after the next step, unless that step belongs to
\* a new generation or loads a record from history; in particular not when
\* the regeneration that was in flight at deletion time completes.  (Stated
\* for non-empty new bodies.)
C28_DeletedStaysDeleted ==
  [][(/\ ev.op = "delete" /\ ev.live
      /\ ev'.op \in {"regenOk", "regenFail", "regenStart", "update", "delete",
                     "tick", "clear"}
      /\ (ev'.op = "regenOk" => ev'.text # << >>)) =>
       \A r \in regens : \A i \in 1..Len(r.list) :
         (/\ r.list[i].id = ev.id
          /\ \A j \in 1..Len(chunks) : chunks[j].title # r.list[i].title) =>
           /\ \A j \in 1..Len(chunks') : chunks'[j].title # r.list[i].title
           /\ ~Contains(Text(generatedContent'),
                        << "#", "#", "#", " " >> \o r.list[i].title
                          \o << "\n" >>)]_vars

\* C29: clear-all is not undone by late completions.  Once the user has
\* confirmed clear-all, the step that follows, be it the completion of a
\* generation or of another operation started before the clear, leaves no
\* record in the history that existed before the clear: every record then
\* present was created by that step (ids are creation times).
C29_ClearNotUndone ==
  [][ev.op = "clear" =>
       \A j \in 1..Len(history') : history'[j].id >= now]_vars

\* C30: the regenerating indicator tracks in-flight requests.  Whenever a
\* regeneration request of the mounted view is in flight, regeneratingChunkId
\* is the id of a chunk with such a request (never null): it is null only
\* when no request remains in flight.
C30_IndicatorTracksRequests ==
  (\E r \in regens : r.live) =>
    \E r \in regens : r.live /\ r.chunk.id = regeneratingChunkId

====
